---- MODULE Spec2Model ----
(***************************************************************************)
(* Verification model of the Olist pipeline driver,                        *)
(* automate_pipeline.py: run_dbt_pipeline() runs `dbt run` for fct_orders  *)
(* and, when that exits 0, `dbt test` for the same selection, printing a   *)
(* status line for each stage.                                             *)
(*                                                                         *)
(* The driver is modelled one statement per action.  subprocess.run is     *)
(* split into its spawn and the child's exit, so that the blocking wait    *)
(* between the two is a state of the model.  The children's exit status    *)
(* and captured streams are the inputs; they are drawn from bounded sets.  *)
(*                                                                         *)
(* The module also models three pieces of the vendored dbt package, each   *)
(* under a specification of its own:                                       *)
(*   SpecPool  dbt/graph/thread_pool.py, DbtThreadPool                     *)
(*   SpecDup   dbt/task/deps.py, DepsTask.check_for_duplicate_packages     *)
(*   SpecDeps  dbt/task/deps.py, DepsTask.run, add, lock                   *)
(* A specification moves the variables of its own part and leaves the      *)
(* others at their initial values.                                         *)
(***************************************************************************)
EXTENDS Integers, Sequences, FiniteSets, TLC

VARIABLES
    pc,          \* position of the driver in automate_pipeline.py
    dbt_path,    \* local dbt_path (line 7)
    run_result,  \* local run_result (line 10): <<>> while unbound, else <<r>>
    test_result, \* local test_result (line 20): <<>> while unbound, else <<r>>
    transcript,  \* what print() has written so far, one entry per call
    calls,       \* argv of every subprocess.run call so far, in order
    running,     \* stages whose child process is alive
    retval,      \* value returned by run_dbt_pipeline
    raised,      \* exception propagating out of run_dbt_pipeline ("" if none)
    exitStatus   \* exit status of the driver process: <<>> until it exits

\* DbtThreadPool (dbt/graph/thread_pool.py)
VARIABLES
    pool_state,            \* ThreadPool._state: "NEW" before __init__ has run
    closed,                \* self.closed
    max_threads,           \* self.max_threads
    max_microbatch_models, \* self.max_microbatch_models
    close_calls,           \* number of close() calls so far
    submitted,             \* number of tasks handed to the pool so far
    is_closed_result,      \* what the latest is_closed() returned
    is_closed_after        \* close_calls at the time of that is_closed()

\* DepsTask.check_for_duplicate_packages (dbt/task/deps.py)
VARIABLES
    dup_pc,              \* position in check_for_duplicate_packages
    add_name,            \* self.args.add_package["name"]
    packages_yml,        \* packages_yml["packages"]
    package_name_parts,  \* local package_name_parts (a set after line 163)
    dup_i,               \* loop variable i of line 166
    dup_input,           \* packages_yml["packages"] as it was passed in
    dup_events           \* entries reported by DepsFoundDuplicatePackage

\* DepsTask.run, add, lock (dbt/task/deps.py)
VARIABLES
    run_pc,          \* position in DepsTask.run
    args,            \* self.args: add_package, source, upgrade, lock
    packages,        \* self.project.packages.packages
    lock_file,       \* package-lock.yml
    install_dir,     \* self.project.packages_install_path
    to_install,      \* lock_defined_deps not yet visited by the loop of line 326
    lock_calls,      \* calls of self.lock() in this run
    rmtree_calls,    \* calls of system.rmtree in this run
    mkdir_calls,     \* calls of system.make_directory in this run
    installs,        \* packages whose install() was called in this run
    lock_file0,      \* package-lock.yml as it was when run() was called
    install_dir0     \* the install directory as it was when run() was called

pipeVars == <<pc, dbt_path, run_result, test_result, transcript, calls,
              running, retval, raised, exitStatus>>

poolVars == <<pool_state, closed, max_threads, max_microbatch_models,
              close_calls, submitted, is_closed_result, is_closed_after>>

dupVars == <<dup_pc, add_name, packages_yml, package_name_parts, dup_i,
             dup_input, dup_events>>

depsVars == <<run_pc, args, packages, lock_file, install_dir, to_install,
              lock_calls, rmtree_calls, mkdir_calls, installs, lock_file0,
              install_dir0>>

libVars == <<poolVars, dupVars, depsVars>>

vars == <<pipeVars, libVars>>

----------------------------------------------------------------------------
(* Bounds of the inputs *)

\* exit statuses 0..MaxExit
MaxExit == 2
\* statuses -MaxSignal..-1: the child was killed by a signal
MaxSignal == 1
\* a captured stream holds at most MaxLines lines
MaxLines == 1

ExitCodes == (0 - MaxSignal)..MaxExit

LineSet == {"syntax error", "3 tests failed"}

RECURSIVE TextsUpTo(_)
TextsUpTo(n) ==
    IF n = 0 THEN {<<>>}
    ELSE LET shorter == TextsUpTo(n - 1)
         IN  shorter \cup {Append(t, l) : t \in {s \in shorter : Len(s) = n - 1},
                                          l \in LineSet}

\* the texts a captured stream can hold (text=True: a str, "" when empty)
Texts == TextsUpTo(MaxLines)

\* subprocess.CompletedProcess with capture_output=True, text=True
CompletedProcess == [returncode : ExitCodes, stdout : Texts, stderr : Texts]

----------------------------------------------------------------------------
(* Constants of the driver *)

NoPath == "<unbound>"
DbtPath == "./dbt-env/bin/dbt"

\* the text of each print() literal; the source's leading emoji is left out
MsgStart == "Starting Olist Data Pipeline..."
MsgRunningModels == "--- Running Models ---"
MsgBuildOk == "Models built successfully!"
MsgBuildFailed == "Model Build Failed!"
MsgRunningTests == "--- Running Data Quality Tests ---"
MsgTestsPassed == "All data tests passed! Revenue is verified."
MsgTestAlert == "Data Quality Alert: Some tests failed!"

\* print(x): one entry per call; src names the expression that was printed
Emit(t, src, text) == Append(t, [src |-> src, text |-> text])
EmitLiteral(t, msg) == Emit(t, "literal", <<msg>>)

Bound(v) == Len(v) = 1
Val(v) == v[1]

\* argv of the build stage (line 10)
BuildCommand(path) == <<path, "run", "--select", "fct_orders">>

TestCommandOtherTarget(path) == <<path, "test", "--select", "stg_orders">>
\* argv of the test stage (line 20)
TestCommand(path) == <<path, "test", "--select", "fct_orders">>

BuildSucceededUnlessKilled(res) == res.returncode >= 0
BuildSucceededAndQuiet(res) == res.returncode = 0 /\ res.stderr = <<>>
\* the gate of line 12
BuildSucceeded(res) == res.returncode = 0

TestSucceededInverted(res) == res.returncode # 0
\* the gate of line 22
TestSucceeded(res) == res.returncode = 0

BuildFailureDetailStdout(res) == [src |-> "run_result.stdout", text |-> res.stdout]
\* what line 16 prints
BuildFailureDetail(res) == [src |-> "run_result.stderr", text |-> res.stderr]

TestFailureDetailStderr(res) == [src |-> "test_result.stderr", text |-> res.stderr]
\* what line 26 prints
TestFailureDetail(res) == [src |-> "test_result.stdout", text |-> res.stdout]

----------------------------------------------------------------------------
(* The parts of the module that a specification does not move *)

\* no DbtThreadPool object exists yet
PoolNotConstructed ==
    /\ pool_state = "NEW"
    /\ closed = FALSE
    /\ max_threads = 0
    /\ max_microbatch_models = 0
    /\ close_calls = 0
    /\ submitted = 0
    /\ is_closed_result = "<not called>"
    /\ is_closed_after = 0

\* check_for_duplicate_packages is not running
DupNotCalled ==
    /\ dup_pc = "idle"
    /\ add_name = <<>>
    /\ packages_yml = <<>>
    /\ package_name_parts = {}
    /\ dup_i = 0
    /\ dup_input = <<>>
    /\ dup_events = <<>>

NoFile == [exists |-> FALSE, has_hash |-> FALSE, hash |-> <<>>,
           packages |-> <<>>, from |-> <<>>]

NoDir == [exists |-> FALSE, contents |-> {}]

NoArgs == [add_package |-> FALSE, name |-> <<>>, version |-> <<>>,
           source |-> "hub", upgrade |-> FALSE, lock |-> FALSE]

\* DepsTask.run has not been called
DepsNotCalled ==
    /\ run_pc = "idle"
    /\ args = NoArgs
    /\ packages = <<>>
    /\ lock_file = NoFile
    /\ install_dir = NoDir
    /\ to_install = <<>>
    /\ lock_calls = 0
    /\ rmtree_calls = 0
    /\ mkdir_calls = 0
    /\ installs = <<>>
    /\ lock_file0 = NoFile
    /\ install_dir0 = NoDir

\* the script has been loaded, run_dbt_pipeline has not been called
PipelineNotStarted ==
    /\ pc = "main"
    /\ dbt_path = "<unbound>"
    /\ run_result = <<>>
    /\ test_result = <<>>
    /\ transcript = <<>>
    /\ calls = <<>>
    /\ running = {}
    /\ retval = "<none yet>"
    /\ raised = ""
    /\ exitStatus = <<>>

----------------------------------------------------------------------------
(* automate_pipeline.py *)

Init ==
    /\ PipelineNotStarted
    /\ PoolNotConstructed
    /\ DupNotCalled
    /\ DepsNotCalled

\* lines 28-29: the script calls run_dbt_pipeline()
Main ==
    /\ pc = "main"
    /\ pc' = "L5"
    /\ UNCHANGED <<dbt_path, run_result, test_result, transcript, calls,
                   running, retval, raised, exitStatus>>
    /\ UNCHANGED libVars

\* line 5
EmitStart ==
    /\ pc = "L5"
    /\ transcript' = EmitLiteral(transcript, MsgStart)
    /\ pc' = "L7"
    /\ UNCHANGED <<dbt_path, run_result, test_result, calls, running, retval,
                   raised, exitStatus>>
    /\ UNCHANGED libVars

\* line 7
SetDbtPath ==
    /\ pc = "L7"
    /\ dbt_path' = DbtPath
    /\ pc' = "L9"
    /\ UNCHANGED <<run_result, test_result, transcript, calls, running,
                   retval, raised, exitStatus>>
    /\ UNCHANGED libVars

\* line 9
EmitRunningModels ==
    /\ pc = "L9"
    /\ transcript' = EmitLiteral(transcript, MsgRunningModels)
    /\ pc' = "L10"
    /\ UNCHANGED <<dbt_path, run_result, test_result, calls, running, retval,
                   raised, exitStatus>>
    /\ UNCHANGED libVars

SpawnBuildInBackground ==
    /\ pc = "L10"
    /\ calls' = Append(calls, BuildCommand(dbt_path))
    /\ running' = running \cup {"build"}
    /\ pc' = "L19"
    /\ UNCHANGED <<dbt_path, run_result, test_result, transcript, retval,
                   raised, exitStatus>>
    /\ UNCHANGED libVars

\* line 10, first half: subprocess.run starts the child and blocks on it
SpawnBuild ==
    /\ pc = "L10"
    /\ calls' = Append(calls, BuildCommand(dbt_path))
    /\ running' = running \cup {"build"}
    /\ pc' = "L10_wait"
    /\ UNCHANGED <<dbt_path, run_result, test_result, transcript, retval,
                   raised, exitStatus>>
    /\ UNCHANGED libVars

\* line 10, the executable cannot be started: subprocess.run raises, and
\* nothing in run_dbt_pipeline catches it
SpawnBuildFails ==
    /\ pc = "L10"
    /\ calls' = Append(calls, BuildCommand(dbt_path))
    /\ raised' = "OSError"
    /\ pc' = "raised"
    /\ UNCHANGED <<dbt_path, run_result, test_result, transcript, running,
                   retval, exitStatus>>
    /\ UNCHANGED libVars

BuildExitsPassThrough ==
    /\ pc = "L10_wait"
    /\ "build" \in running
    /\ \E res \in CompletedProcess :
          /\ run_result' = <<res>>
          /\ transcript' = Emit(transcript, "run_result.stdout", res.stdout)
    /\ running' = running \ {"build"}
    /\ pc' = "L12"
    /\ UNCHANGED <<dbt_path, test_result, calls, retval, raised, exitStatus>>
    /\ UNCHANGED libVars

\* line 10, second half: the child exits, run_result is bound
BuildExits ==
    /\ pc = "L10_wait"
    /\ "build" \in running
    /\ \E res \in CompletedProcess :
          run_result' = <<res>>
    /\ running' = running \ {"build"}
    /\ pc' = "L12"
    /\ UNCHANGED <<dbt_path, test_result, transcript, calls, retval, raised,
                   exitStatus>>
    /\ UNCHANGED libVars

BuildOkSilent ==
    /\ pc = "L12"
    /\ BuildSucceeded(Val(run_result))
    /\ pc' = "L19"
    /\ UNCHANGED <<dbt_path, run_result, test_result, transcript, calls,
                   running, retval, raised, exitStatus>>
    /\ UNCHANGED libVars

\* lines 12-13
BuildOk ==
    /\ pc = "L12"
    /\ BuildSucceeded(Val(run_result))
    /\ transcript' = EmitLiteral(transcript, MsgBuildOk)
    /\ pc' = "L19"
    /\ UNCHANGED <<dbt_path, run_result, test_result, calls, running, retval,
                   raised, exitStatus>>
    /\ UNCHANGED libVars

\* lines 12, 14-15
BuildFailed ==
    /\ pc = "L12"
    /\ ~BuildSucceeded(Val(run_result))
    /\ transcript' = EmitLiteral(transcript, MsgBuildFailed)
    /\ pc' = "L16"
    /\ UNCHANGED <<dbt_path, run_result, test_result, calls, running, retval,
                   raised, exitStatus>>
    /\ UNCHANGED libVars

\* line 16
EmitBuildStderr ==
    /\ pc = "L16"
    /\ transcript' = Append(transcript, BuildFailureDetail(Val(run_result)))
    /\ pc' = "L17"
    /\ UNCHANGED <<dbt_path, run_result, test_result, calls, running, retval,
                   raised, exitStatus>>
    /\ UNCHANGED libVars

RetryAfterBuildFailure ==
    /\ pc = "L17"
    /\ pc' = "L10"
    /\ UNCHANGED <<dbt_path, run_result, test_result, transcript, calls,
                   running, retval, raised, exitStatus>>
    /\ UNCHANGED libVars

RaiseAfterBuildFailure ==
    /\ pc = "L17"
    /\ raised' = "SystemExit"
    /\ pc' = "raised"
    /\ UNCHANGED <<dbt_path, run_result, test_result, transcript, calls,
                   running, retval, exitStatus>>
    /\ UNCHANGED libVars

\* line 17: return
ReturnAfterBuildFailure ==
    /\ pc = "L17"
    /\ retval' = "None"
    /\ pc' = "returned"
    /\ UNCHANGED <<dbt_path, run_result, test_result, transcript, calls,
                   running, raised, exitStatus>>
    /\ UNCHANGED libVars

\* line 19
EmitRunningTests ==
    /\ pc = "L19"
    /\ transcript' = EmitLiteral(transcript, MsgRunningTests)
    /\ pc' = "L20"
    /\ UNCHANGED <<dbt_path, run_result, test_result, calls, running, retval,
                   raised, exitStatus>>
    /\ UNCHANGED libVars

\* line 20, first half
SpawnTest ==
    /\ pc = "L20"
    /\ calls' = Append(calls, TestCommand(dbt_path))
    /\ running' = running \cup {"test"}
    /\ pc' = "L20_wait"
    /\ UNCHANGED <<dbt_path, run_result, test_result, transcript, retval,
                   raised, exitStatus>>
    /\ UNCHANGED libVars

\* line 20, the executable cannot be started
SpawnTestFails ==
    /\ pc = "L20"
    /\ calls' = Append(calls, TestCommand(dbt_path))
    /\ raised' = "OSError"
    /\ pc' = "raised"
    /\ UNCHANGED <<dbt_path, run_result, test_result, transcript, running,
                   retval, exitStatus>>
    /\ UNCHANGED libVars

TestExitsDetached ==
    /\ pc = "L20_wait"
    /\ "test" \in running
    /\ \E res \in CompletedProcess :
          test_result' = <<res>>
    /\ pc' = "L22"
    /\ UNCHANGED <<dbt_path, run_result, transcript, calls, running, retval,
                   raised, exitStatus>>
    /\ UNCHANGED libVars

\* line 20, second half
TestExits ==
    /\ pc = "L20_wait"
    /\ "test" \in running
    /\ \E res \in CompletedProcess :
          test_result' = <<res>>
    /\ running' = running \ {"test"}
    /\ pc' = "L22"
    /\ UNCHANGED <<dbt_path, run_result, transcript, calls, retval, raised,
                   exitStatus>>
    /\ UNCHANGED libVars

TestsPassedThenDump ==
    /\ pc = "L22"
    /\ TestSucceeded(Val(test_result))
    /\ transcript' = EmitLiteral(transcript, MsgTestsPassed)
    /\ pc' = "L26"
    /\ UNCHANGED <<dbt_path, run_result, test_result, calls, running, retval,
                   raised, exitStatus>>
    /\ UNCHANGED libVars

\* lines 22-23
TestsPassed ==
    /\ pc = "L22"
    /\ TestSucceeded(Val(test_result))
    /\ transcript' = EmitLiteral(transcript, MsgTestsPassed)
    /\ pc' = "end"
    /\ UNCHANGED <<dbt_path, run_result, test_result, calls, running, retval,
                   raised, exitStatus>>
    /\ UNCHANGED libVars

\* lines 22, 24-25
TestsFailed ==
    /\ pc = "L22"
    /\ ~TestSucceeded(Val(test_result))
    /\ transcript' = EmitLiteral(transcript, MsgTestAlert)
    /\ pc' = "L26"
    /\ UNCHANGED <<dbt_path, run_result, test_result, calls, running, retval,
                   raised, exitStatus>>
    /\ UNCHANGED libVars

\* line 26
EmitTestStdout ==
    /\ pc = "L26"
    /\ transcript' = Append(transcript, TestFailureDetail(Val(test_result)))
    /\ pc' = "end"
    /\ UNCHANGED <<dbt_path, run_result, test_result, calls, running, retval,
                   raised, exitStatus>>
    /\ UNCHANGED libVars

ReturnAtEndStrict ==
    /\ pc = "end"
    /\ IF TestSucceeded(Val(test_result))
       THEN /\ retval' = "None"
            /\ pc' = "returned"
            /\ UNCHANGED raised
       ELSE /\ raised' = "SystemExit"
            /\ pc' = "raised"
            /\ UNCHANGED retval
    /\ UNCHANGED <<dbt_path, run_result, test_result, transcript, calls,
                   running, exitStatus>>
    /\ UNCHANGED libVars

\* after line 26 the function body ends: implicit return None
ReturnAtEnd ==
    /\ pc = "end"
    /\ retval' = "None"
    /\ pc' = "returned"
    /\ UNCHANGED <<dbt_path, run_result, test_result, transcript, calls,
                   running, raised, exitStatus>>
    /\ UNCHANGED libVars

\* line 29 returns: the script ends, the interpreter exits with status 0
ExitNormally ==
    /\ pc = "returned"
    /\ exitStatus' = <<0>>
    /\ pc' = "exited"
    /\ UNCHANGED <<dbt_path, run_result, test_result, transcript, calls,
                   running, retval, raised>>
    /\ UNCHANGED libVars

\* an exception leaves line 29 uncaught: the interpreter exits with status 1
ExitOnException ==
    /\ pc = "raised"
    /\ exitStatus' = <<1>>
    /\ pc' = "exited"
    /\ UNCHANGED <<dbt_path, run_result, test_result, transcript, calls,
                   running, retval, raised>>
    /\ UNCHANGED libVars

Next ==
    \/ Main
    \/ EmitStart
    \/ SetDbtPath
    \/ EmitRunningModels
    \/ SpawnBuild
    \/ SpawnBuildFails
    \/ BuildExits
    \/ BuildOk
    \/ BuildFailed
    \/ EmitBuildStderr
    \/ ReturnAfterBuildFailure
    \/ EmitRunningTests
    \/ SpawnTest
    \/ SpawnTestFails
    \/ TestExits
    \/ TestsPassed
    \/ TestsFailed
    \/ EmitTestStdout
    \/ ReturnAtEnd
    \/ ExitNormally
    \/ ExitOnException

Spec == Init /\ [][Next]_vars

\* the interpreter keeps executing the driver, and a child that can exit
\* does exit
SpecFair == Spec /\ WF_vars(Next)

----------------------------------------------------------------------------
(* dbt/graph/thread_pool.py: DbtThreadPool *)

\* the pool is built with 1..MaxProcesses threads
MaxProcesses == 4
\* at most MaxCloseCalls calls of close() are followed
MaxCloseCalls == 2
\* at most MaxTasks tasks are handed to the pool
MaxTasks == 2

Max(a, b) == IF a >= b THEN a ELSE b

PoolInit == Init

\* lines 10-18: __init__(processes)
PoolConstruct ==
    /\ pool_state = "NEW"
    /\ \E processes \in 1..MaxProcesses :
          /\ max_threads' = processes
          /\ max_microbatch_models' = Max(1, processes \div 2)
    /\ pool_state' = "RUN"
    /\ closed' = FALSE
    /\ UNCHANGED <<close_calls, submitted, is_closed_result, is_closed_after>>
    /\ UNCHANGED <<pipeVars, dupVars, depsVars>>

PoolCloseSuperOnly ==
    /\ pool_state # "NEW"
    /\ close_calls < MaxCloseCalls
    /\ pool_state' = IF pool_state = "RUN" THEN "CLOSE" ELSE pool_state
    /\ close_calls' = close_calls + 1
    /\ UNCHANGED <<closed, max_threads, max_microbatch_models, submitted,
                   is_closed_result, is_closed_after>>
    /\ UNCHANGED <<pipeVars, dupVars, depsVars>>

\* lines 20-22: close(); ThreadPool.close() moves a running pool to CLOSE
PoolClose ==
    /\ pool_state # "NEW"
    /\ close_calls < MaxCloseCalls
    /\ closed' = TRUE
    /\ pool_state' = IF pool_state = "RUN" THEN "CLOSE" ELSE pool_state
    /\ close_calls' = close_calls + 1
    /\ UNCHANGED <<max_threads, max_microbatch_models, submitted,
                   is_closed_result, is_closed_after>>
    /\ UNCHANGED <<pipeVars, dupVars, depsVars>>

\* lines 24-25: is_closed()
PoolIsClosed ==
    /\ pool_state # "NEW"
    /\ is_closed_result' = IF closed THEN "True" ELSE "False"
    /\ is_closed_after' = close_calls
    /\ UNCHANGED <<pool_state, closed, max_threads, max_microbatch_models,
                   close_calls, submitted>>
    /\ UNCHANGED <<pipeVars, dupVars, depsVars>>

\* inherited ThreadPool.terminate(): not overridden, self.closed is not touched
PoolTerminate ==
    /\ pool_state \in {"RUN", "CLOSE"}
    /\ pool_state' = "TERMINATE"
    /\ UNCHANGED <<closed, max_threads, max_microbatch_models, close_calls,
                   submitted, is_closed_result, is_closed_after>>
    /\ UNCHANGED <<pipeVars, dupVars, depsVars>>

\* inherited ThreadPool.apply_async(): accepted only by a running pool
PoolSubmit ==
    /\ pool_state = "RUN"
    /\ submitted < MaxTasks
    /\ submitted' = submitted + 1
    /\ UNCHANGED <<pool_state, closed, max_threads, max_microbatch_models,
                   close_calls, is_closed_result, is_closed_after>>
    /\ UNCHANGED <<pipeVars, dupVars, depsVars>>

PoolNext ==
    \/ PoolConstruct
    \/ PoolClose
    \/ PoolIsClosed
    \/ PoolTerminate
    \/ PoolSubmit

SpecPool == PoolInit /\ [][PoolNext]_vars

----------------------------------------------------------------------------
(* dbt/task/deps.py: strings *)

\* A str is the sequence of its characters' code points.
Hyphen == 45
Dot == 46
Slash == 47
Underscore == 95
LetterA == 97

Chars == {Hyphen, Dot, Slash, Underscore, LetterA}

RECURSIVE StringsUpTo(_)
StringsUpTo(n) ==
    IF n = 0 THEN {<<>>}
    ELSE LET shorter == StringsUpTo(n - 1)
         IN  shorter \cup {Append(t, c) : t \in {x \in shorter : Len(x) = n - 1},
                                          c \in Chars}

\* str.replace(old, new) for one-character old and new
Replace(str, old, new) ==
    [k \in 1..Len(str) |-> IF str[k] = old THEN new ELSE str[k]]

\* the 0-based indices at which sub occurs in str
Occurrences(str, sub) ==
    {k \in 0..(Len(str) - Len(sub)) : SubSeq(str, k + 1, k + Len(sub)) = sub}

\* sub in str
Contains(str, sub) == Occurrences(str, sub) # {}

\* str.find(sub): the lowest index at which sub occurs, -1 if none
Find(str, sub) ==
    IF Occurrences(str, sub) = {} THEN 0 - 1
    ELSE CHOOSE k \in Occurrences(str, sub) :
             \A m \in Occurrences(str, sub) : k <= m

\* str.split("/")[-1]: what follows the last "/"
AfterLastSlash(str) ==
    LET slashes == {k \in 1..Len(str) : str[k] = Slash}
    IN  IF slashes = {} THEN str
        ELSE LET last == CHOOSE k \in slashes : \A m \in slashes : m <= k
             IN  SubSeq(str, last + 1, Len(str))

----------------------------------------------------------------------------
(* dbt/task/deps.py: DepsTask.check_for_duplicate_packages *)

\* the added package's name has 1..MaxNameLen characters
MaxNameLen == 2
\* packages.yml has at most MaxPkgs entries ...
MaxPkgs == 2
\* ... whose identifiers have at most MaxTotalLen characters together
MaxTotalLen == 4

EntryKeys == <<"package", "git", "local", "tarball", "private">>

NoEntry == [package |-> <<>>, git |-> <<>>, local |-> <<>>, tarball |-> <<>>,
            private |-> <<>>, version |-> <<>>, revision |-> <<>>]

\* a packages.yml entry with one identifier key; a key that is missing and
\* a key with an empty value are both falsy to the code
MakeEntry(key, id) == [NoEntry EXCEPT ![key] = id]

\* lines 171-177: the first truthy of the five keys
PackageIdentifier(pkg_entry) ==
    IF pkg_entry.package # <<>> THEN pkg_entry.package
    ELSE IF pkg_entry.git # <<>> THEN pkg_entry.git
    ELSE IF pkg_entry.local # <<>> THEN pkg_entry.local
    ELSE IF pkg_entry.tarball # <<>> THEN pkg_entry.tarball
    ELSE pkg_entry.private

\* lines 146-163: the name, its hyphen and underscore spellings, and the
\* same for what follows the last "/"
NameParts(package_name) ==
    LET whole == {package_name,
                  Replace(package_name, Underscore, Hyphen),
                  Replace(package_name, Hyphen, Underscore)}
        short_name == AfterLastSlash(package_name)
    IN  IF Contains(package_name, <<Slash>>)
        THEN whole \cup {short_name,
                         Replace(short_name, Underscore, Hyphen),
                         Replace(short_name, Hyphen, Underscore)}
        ELSE whole

\* the word boundaries of lines 190 and 194
BoundaryChars == {Slash, Dot}

\* lines 190-195 for an occurrence of name_variant at idx
Delimited(package_identifier, name_variant, idx) ==
    LET end_idx == idx + Len(name_variant)
        start_ok == idx = 0 \/ package_identifier[idx] \in BoundaryChars
        end_ok == \/ end_idx = Len(package_identifier)
                  \/ package_identifier[end_idx + 1] \in BoundaryChars
    IN  start_ok /\ end_ok

\* lines 183-199: is_duplicate
IsDuplicate(package_identifier, parts) ==
    /\ package_identifier # <<>>
    /\ \E name_variant \in parts :
          /\ Contains(package_identifier, name_variant)
          /\ Delimited(package_identifier, name_variant,
                       Find(package_identifier, name_variant))

\* del packages_yml["packages"][i], i counted from 0
DeleteAt(list, i) == SubSeq(list, 1, i) \o SubSeq(list, i + 2, Len(list))

\* the lists of at most n entries whose identifiers have at most total
\* characters together; the entry at position k uses the k-th key
RECURSIVE EntryLists(_, _, _)
EntryLists(k, n, total) ==
    IF n = 0 THEN {<<>>}
    ELSE {<<>>} \cup
         UNION {{<<MakeEntry(EntryKeys[k], id)>> \o rest :
                    rest \in EntryLists(k + 1, n - 1, total - Len(id))} :
                id \in StringsUpTo(total)}

DupInit ==
    /\ dup_pc = "start"
    /\ add_name \in StringsUpTo(MaxNameLen) \ {<<>>}
    /\ packages_yml \in EntryLists(1, MaxPkgs, MaxTotalLen)
    /\ package_name_parts = {}
    /\ dup_i = 0
    /\ dup_input = packages_yml
    /\ dup_events = <<>>
    /\ PipelineNotStarted
    /\ PoolNotConstructed
    /\ DepsNotCalled

\* lines 142-166: the name's variants, then the loop starts at the last entry
DupStart ==
    /\ dup_pc = "start"
    /\ package_name_parts' = NameParts(add_name)
    /\ dup_i' = Len(packages_yml) - 1
    /\ dup_pc' = "loop"
    /\ UNCHANGED <<add_name, packages_yml, dup_input, dup_events>>
    /\ UNCHANGED <<pipeVars, poolVars, depsVars>>

\* lines 166-212: one iteration of the loop
DupLoopStep ==
    /\ dup_pc = "loop"
    /\ dup_i >= 0
    /\ LET pkg_entry == packages_yml[dup_i + 1]
       IN  IF IsDuplicate(PackageIdentifier(pkg_entry), package_name_parts)
           THEN /\ packages_yml' = DeleteAt(packages_yml, dup_i)
                /\ dup_events' = Append(dup_events, pkg_entry)
           ELSE UNCHANGED <<packages_yml, dup_events>>
    /\ dup_i' = dup_i - 1
    /\ UNCHANGED <<dup_pc, add_name, package_name_parts, dup_input>>
    /\ UNCHANGED <<pipeVars, poolVars, depsVars>>

\* line 214: the loop is over, packages_yml is returned
DupReturn ==
    /\ dup_pc = "loop"
    /\ dup_i < 0
    /\ dup_pc' = "returned"
    /\ UNCHANGED <<add_name, packages_yml, package_name_parts, dup_i,
                   dup_input, dup_events>>
    /\ UNCHANGED <<pipeVars, poolVars, depsVars>>

DupNext ==
    \/ DupStart
    \/ DupLoopStep
    \/ DupReturn

SpecDup == DupInit /\ [][DupNext]_vars

----------------------------------------------------------------------------
(* dbt/task/deps.py: _create_sha1_hash *)

\* the keys a package's to_dict() can have, in the order sort_keys gives them
KeyOrder == <<"git", "local", "package", "private", "revision", "tarball",
              "version">>

\* the characters of a key
KeyText(key) ==
    CASE key = "git" -> <<103, 105, 116>>
      [] key = "local" -> <<108, 111, 99, 97, 108>>
      [] key = "package" -> <<112, 97, 99, 107, 97, 103, 101>>
      [] key = "private" -> <<112, 114, 105, 118, 97, 116, 101>>
      [] key = "revision" -> <<114, 101, 118, 105, 115, 105, 111, 110>>
      [] key = "tarball" -> <<116, 97, 114, 98, 97, 108, 108>>
      [] key = "version" -> <<118, 101, 114, 115, 105, 111, 110>>

\* a JSON string literal; none of the characters used needs an escape
Quoted(str) == <<34>> \o str \o <<34>>

\* "sep".join(strs)
RECURSIVE Join(_, _)
Join(strs, sep) ==
    IF strs = <<>> THEN <<>>
    ELSE IF Len(strs) = 1 THEN strs[1]
    ELSE strs[1] \o sep \o Join(Tail(strs), sep)

\* json.dumps(package.to_dict(), sort_keys=True): the keys that are set,
\* sorted, as {"key": "value", ...}
Json(package) ==
    LET present == SelectSeq(KeyOrder, LAMBDA key : package[key] # <<>>)
        items == [k \in 1..Len(present) |->
                     Quoted(KeyText(present[k])) \o <<58, 32>>
                        \o Quoted(package[present[k]])]
    IN  <<123>> \o Join(items, <<44, 32>>) \o <<125>>

\* str < str: by code points, a proper prefix first
LexLess(a, b) ==
    \E k \in 1..(Len(b)) :
        /\ k <= Len(a) + 1
        /\ \A m \in 1..(k - 1) : a[m] = b[m]
        /\ (k = Len(a) + 1 \/ a[k] < b[k])

\* sha1(...).hexdigest(): taken to be free of collisions, the digest stands
\* for the bytes that were hashed
Sha1(bytes) == [sha1_of |-> bytes]

HashInputUnsorted(package_list) ==
    Join([k \in 1..Len(package_list) |-> Json(package_list[k])], <<10>>)

\* lines 53-56: what is hashed, the sorted serializations joined by "\n"
HashInput(package_list) ==
    Join(SortSeq([k \in 1..Len(package_list) |-> Json(package_list[k])],
                 LexLess),
         <<10>>)

\* lines 42-56
CreateSha1Hash(package_list) == Sha1(HashInput(package_list))

----------------------------------------------------------------------------
(* dbt/task/deps.py: DepsTask.add, lock, run *)

\* packages.yml and the lock file's source have at most MaxDepPkgs entries
MaxDepPkgs == 2

\* the packages the project can specify
PkgUniverse ==
    {[MakeEntry("package", <<LetterA, Slash, LetterA>>) EXCEPT !.version = <<49>>],
     MakeEntry("git", <<LetterA, Hyphen, LetterA>>),
     MakeEntry("local", <<Dot, Slash, LetterA>>)}

RECURSIVE PkgListsUpTo(_)
PkgListsUpTo(n) ==
    IF n = 0 THEN {<<>>}
    ELSE LET shorter == PkgListsUpTo(n - 1)
         IN  shorter \cup {Append(l, e) : l \in {x \in shorter : Len(x) = n - 1},
                                          e \in PkgUniverse}

\* lines 59-87: _create_packages_yml_entry(package, version, source)
CreatePackagesYmlEntry(package, version, source) ==
    LET package_key == IF source = "hub" THEN "package" ELSE source
        version_key == IF source = "git" THEN "revision" ELSE "version"
    IN  [MakeEntry(package_key, package) EXCEPT ![version_key] = version]

\* lines 166-214 as a function: the entries that are not duplicates, in order
RECURSIVE RemoveDuplicates(_, _)
RemoveDuplicates(list, parts) ==
    IF list = <<>> THEN <<>>
    ELSE LET front == RemoveDuplicates(SubSeq(list, 1, Len(list) - 1), parts)
             pkg_entry == list[Len(list)]
         IN  IF IsDuplicate(PackageIdentifier(pkg_entry), parts)
             THEN front
             ELSE Append(front, pkg_entry)

\* lines 216-234: add()
AddPackage(package_list, a) ==
    Append(RemoveDuplicates(package_list, NameParts(a.name)),
           CreatePackagesYmlEntry(a.name, a.version, a.source))

\* lines 260-261: resolve_packages, taken to pin every specified package to
\* itself and to find no further dependency
ResolvePackages(package_list) == package_list

\* lines 254-276: the lock file that lock() writes for a package list
LockFileFor(package_list) ==
    [exists |-> TRUE, has_hash |-> TRUE,
     hash |-> <<CreateSha1Hash(package_list)>>,
     packages |-> ResolvePackages(package_list),
     from |-> package_list]

\* a lock file written before the hash key existed
WithoutHash(file) == [file EXCEPT !.has_hash = FALSE, !.hash = <<>>]

\* line 295: load_yml_dict(lock_file_path).get(PACKAGE_LOCK_HASH_KEY, None)
PreviousHash(file) == IF file.has_hash THEN file.hash ELSE <<>>

NeedsLockIgnoringUpgrade(file, a, package_list) ==
    IF ~file.exists THEN TRUE
    ELSE PreviousHash(file) # <<CreateSha1Hash(package_list)>>

\* lines 288-297: does run() call lock()
NeedsLock(file, a, package_list) ==
    IF ~file.exists THEN TRUE
    ELSE IF a.upgrade THEN TRUE
    ELSE PreviousHash(file) # <<CreateSha1Hash(package_list)>>

LockOnlyUnlessUpgrade(a) == a.lock /\ ~a.upgrade
\* line 301
LockOnly(a) == a.lock

AddOptions ==
    {NoArgs,
     [NoArgs EXCEPT !.add_package = TRUE, !.name = <<LetterA, Slash, LetterA>>,
                    !.version = <<50>>, !.source = "hub"],
     [NoArgs EXCEPT !.add_package = TRUE,
                    !.name = <<LetterA, Underscore, LetterA>>,
                    !.source = "git"]}

DepsInit ==
    /\ run_pc = "start"
    /\ \E a \in AddOptions : \E u \in BOOLEAN : \E l \in BOOLEAN :
          args = [a EXCEPT !.upgrade = u, !.lock = l]
    /\ packages \in PkgListsUpTo(MaxDepPkgs)
    /\ lock_file \in
          {NoFile}
             \cup {LockFileFor(prev) : prev \in PkgListsUpTo(MaxDepPkgs) \ {<<>>}}
             \cup {WithoutHash(LockFileFor(prev)) :
                      prev \in PkgListsUpTo(MaxDepPkgs) \ {<<>>}}
    /\ install_dir \in {NoDir, [exists |-> TRUE, contents |-> {}],
                        [exists |-> TRUE, contents |-> PkgUniverse]}
    /\ to_install = <<>>
    /\ lock_calls = 0
    /\ rmtree_calls = 0
    /\ mkdir_calls = 0
    /\ installs = <<>>
    /\ lock_file0 = lock_file
    /\ install_dir0 = install_dir
    /\ PipelineNotStarted
    /\ PoolNotConstructed
    /\ DupNotCalled

\* lines 281-283: --add-package given, add() rewrites the specified packages
DepsRunAdd ==
    /\ run_pc = "start"
    /\ args.add_package
    /\ packages' = AddPackage(packages, args)
    /\ run_pc' = "check_lock"
    /\ UNCHANGED <<args, lock_file, install_dir, to_install, lock_calls,
                   rmtree_calls, mkdir_calls, installs, lock_file0,
                   install_dir0>>
    /\ UNCHANGED <<pipeVars, poolVars, dupVars>>

\* lines 281-282: no --add-package
DepsRunNoAdd ==
    /\ run_pc = "start"
    /\ ~args.add_package
    /\ run_pc' = "check_lock"
    /\ UNCHANGED <<args, packages, lock_file, install_dir, to_install,
                   lock_calls, rmtree_calls, mkdir_calls, installs,
                   lock_file0, install_dir0>>
    /\ UNCHANGED <<pipeVars, poolVars, dupVars>>

\* lines 287-297 with lines 250-278: lock() is called; it writes the lock
\* file unless no package is specified
DepsLock ==
    /\ run_pc = "check_lock"
    /\ NeedsLock(lock_file, args, packages)
    /\ lock_calls' = lock_calls + 1
    /\ lock_file' = IF packages = <<>> THEN lock_file
                    ELSE LockFileFor(packages)
    /\ run_pc' = "lock_flag"
    /\ UNCHANGED <<args, packages, install_dir, to_install, rmtree_calls,
                   mkdir_calls, installs, lock_file0, install_dir0>>
    /\ UNCHANGED <<pipeVars, poolVars, dupVars>>

\* lines 287-297: the lock file is there, no upgrade, the hashes are equal
DepsLockUpToDate ==
    /\ run_pc = "check_lock"
    /\ ~NeedsLock(lock_file, args, packages)
    /\ run_pc' = "lock_flag"
    /\ UNCHANGED <<args, packages, lock_file, install_dir, to_install,
                   lock_calls, rmtree_calls, mkdir_calls, installs,
                   lock_file0, install_dir0>>
    /\ UNCHANGED <<pipeVars, poolVars, dupVars>>

\* lines 301-302: dbt deps --lock returns here
DepsEarlyReturn ==
    /\ run_pc = "lock_flag"
    /\ LockOnly(args)
    /\ run_pc' = "returned"
    /\ UNCHANGED <<args, packages, lock_file, install_dir, to_install,
                   lock_calls, rmtree_calls, mkdir_calls, installs,
                   lock_file0, install_dir0>>
    /\ UNCHANGED <<pipeVars, poolVars, dupVars>>

\* lines 301, 304-307: the install directory is removed if there, and made
DepsCleanInstallDir ==
    /\ run_pc = "lock_flag"
    /\ ~LockOnly(args)
    /\ rmtree_calls' = IF install_dir.exists THEN rmtree_calls + 1
                       ELSE rmtree_calls
    /\ mkdir_calls' = mkdir_calls + 1
    /\ install_dir' = [exists |-> TRUE, contents |-> {}]
    /\ run_pc' = "load_lock"
    /\ UNCHANGED <<args, packages, lock_file, to_install, lock_calls,
                   installs, lock_file0, install_dir0>>
    /\ UNCHANGED <<pipeVars, poolVars, dupVars>>

\* lines 309-318: the lock file names no package (or is not there)
DepsNoPackagesFound ==
    /\ run_pc = "load_lock"
    /\ (~lock_file.exists \/ lock_file.packages = <<>>)
    /\ run_pc' = "returned"
    /\ UNCHANGED <<args, packages, lock_file, install_dir, to_install,
                   lock_calls, rmtree_calls, mkdir_calls, installs,
                   lock_file0, install_dir0>>
    /\ UNCHANGED <<pipeVars, poolVars, dupVars>>

\* lines 309-321: the packages of the lock file are to be installed
DepsLoadLock ==
    /\ run_pc = "load_lock"
    /\ lock_file.exists
    /\ lock_file.packages # <<>>
    /\ to_install' = lock_file.packages
    /\ run_pc' = "install"
    /\ UNCHANGED <<args, packages, lock_file, install_dir, lock_calls,
                   rmtree_calls, mkdir_calls, installs, lock_file0,
                   install_dir0>>
    /\ UNCHANGED <<pipeVars, poolVars, dupVars>>

\* lines 326-350: one iteration of the install loop
DepsInstallOne ==
    /\ run_pc = "install"
    /\ to_install # <<>>
    /\ installs' = Append(installs, Head(to_install))
    /\ install_dir' = [install_dir EXCEPT
                          !.contents = install_dir.contents \cup {Head(to_install)}]
    /\ to_install' = Tail(to_install)
    /\ UNCHANGED <<run_pc, args, packages, lock_file, lock_calls,
                   rmtree_calls, mkdir_calls, lock_file0, install_dir0>>
    /\ UNCHANGED <<pipeVars, poolVars, dupVars>>

\* lines 352-354: the loop is over, run() returns
DepsInstallDone ==
    /\ run_pc = "install"
    /\ to_install = <<>>
    /\ run_pc' = "returned"
    /\ UNCHANGED <<args, packages, lock_file, install_dir, to_install,
                   lock_calls, rmtree_calls, mkdir_calls, installs,
                   lock_file0, install_dir0>>
    /\ UNCHANGED <<pipeVars, poolVars, dupVars>>

DepsNext ==
    \/ DepsRunAdd
    \/ DepsRunNoAdd
    \/ DepsLock
    \/ DepsLockUpToDate
    \/ DepsEarlyReturn
    \/ DepsCleanInstallDir
    \/ DepsNoPackagesFound
    \/ DepsLoadLock
    \/ DepsInstallOne
    \/ DepsInstallDone

SpecDeps == DepsInit /\ [][DepsNext]_vars

----------------------------------------------------------------------------
(* Vocabulary of the properties *)

\* the run is over: the function returned or raised, or the process exited
Finished == pc \in {"returned", "raised", "exited"}

BuildExited == Bound(run_result)
TestExited == Bound(test_result)
BuildExitedZero == BuildExited /\ Val(run_result).returncode = 0
BuildExitedNonZero == BuildExited /\ Val(run_result).returncode # 0
TestExitedZero == TestExited /\ Val(test_result).returncode = 0
TestExitedNonZero == TestExited /\ Val(test_result).returncode # 0

Lit(msg) == [src |-> "literal", text |-> <<msg>>]

\* indices of an entry in the transcript
IndicesOf(e) == {i \in 1..Len(transcript) : transcript[i] = e}
Emitted(e) == IndicesOf(e) # {}

\* calls made for a stage: argv[2] is the dbt subcommand
CallsOf(cmd) == {i \in 1..Len(calls) : calls[i][2] = cmd}

PcValues ==
    {"main", "L5", "L7", "L9", "L10", "L10_wait", "L12", "L16", "L17", "L19",
     "L20", "L20_wait", "L22", "L26", "end", "returned", "raised", "exited"}

TypeOK ==
    /\ dbt_path \in {NoPath, DbtPath}
    /\ run_result \in {<<>>} \cup {<<r>> : r \in CompletedProcess}
    /\ test_result \in {<<>>} \cup {<<r>> : r \in CompletedProcess}
    /\ running \subseteq {"build", "test"}
    /\ retval \in {"<none yet>", "None"}
    /\ pc \in PcValues
    /\ raised \in {"", "OSError"}
    /\ exitStatus \in {<<>>, <<0>>, <<1>>}

----------------------------------------------------------------------------
(* C1. In every run in which the build child exits with status 0, the test *)
(* stage is invoked exactly once (never more than once while the run is in *)
(* progress, exactly once when it is over), with the engine path and the   *)
(* selection target "fct_orders" of the build stage.                       *)
C1_TestInvokedOnceAfterCleanBuild ==
    BuildExitedZero =>
        /\ Cardinality(CallsOf("run")) = 1
        /\ Cardinality(CallsOf("test")) <= 1
        /\ Finished => Cardinality(CallsOf("test")) = 1
        /\ \A i \in CallsOf("test") : \A j \in CallsOf("run") :
              /\ j < i
              /\ calls[i][1] = calls[j][1]
              /\ calls[i][1] = DbtPath
              /\ calls[i][3] = calls[j][3]
              /\ calls[i][4] = calls[j][4]
              /\ calls[i][4] = "fct_orders"

C1_Witness ==
    /\ BuildExitedZero
    /\ pc = "returned"
    /\ Len(calls) = 2
    /\ calls[2][2] = "test"

(* C2. In every run in which the build child exits with a non-zero status, *)
(* the test stage is never invoked: subprocess.run has been called exactly *)
(* once, for the build.                                                    *)
C2_NoTestAfterFailedBuild ==
    BuildExitedNonZero =>
        /\ Len(calls) = 1
        /\ calls[1][2] = "run"
        /\ CallsOf("test") = {}
        /\ "test" \notin running
        /\ ~TestExited

C2_Witness ==
    /\ BuildExitedNonZero
    /\ Val(run_result).returncode > 0
    /\ pc = "exited"
    /\ Len(calls) = 1

(* C3. The build child is spawned first and has exited before the test     *)
(* child is spawned: the two children are never alive together, a test     *)
(* call is always preceded by a build that has exited, and the step that   *)
(* starts the test child is taken with the build child gone.               *)
C3_SequentialState ==
    /\ Cardinality(running) <= 1
    /\ CallsOf("test") # {} =>
          /\ calls[1][2] = "run"
          /\ BuildExited
          /\ "build" \notin running
    /\ "build" \in running => CallsOf("test") = {}

C3_SpawnTestStep ==
    ("test" \in running' /\ "test" \notin running) =>
        /\ BuildExited
        /\ running = {}
        /\ Len(calls) = 1
        /\ calls[1][2] = "run"

C3_BuildPrecedesTest == [](C3_SequentialState) /\ [][C3_SpawnTestStep]_vars

C3_Witness ==
    /\ "test" \in running
    /\ pc = "L20_wait"
    /\ BuildExited

(* C4. Whenever the build exits non-zero, the finished run's transcript    *)
(* holds the build-failure line and, later, the whole captured stderr of   *)
(* the build.                                                              *)
C4_BuildFailureShowsStderr ==
    (BuildExitedNonZero /\ Finished) =>
        \E i \in 1..Len(transcript) : \E j \in 1..Len(transcript) :
            /\ i < j
            /\ transcript[i] = Lit(MsgBuildFailed)
            /\ transcript[j].src = "run_result.stderr"
            /\ transcript[j].text = Val(run_result).stderr

C4_Witness ==
    /\ BuildExitedNonZero
    /\ pc = "returned"
    /\ Val(run_result).stderr # <<>>
    /\ Val(run_result).stderr # Val(run_result).stdout

(* C5. Whenever the test child exits with status 0, the driver prints the  *)
(* test-success line (it is there when the run is over) and prints neither *)
(* the captured stdout of the test stage nor the test-warning line.        *)
C5_CleanTestIsQuiet ==
    TestExitedZero =>
        /\ \A i \in 1..Len(transcript) : transcript[i].src # "test_result.stdout"
        /\ ~Emitted(Lit(MsgTestAlert))
        /\ Finished => Cardinality(IndicesOf(Lit(MsgTestsPassed))) = 1

C5_Witness ==
    /\ TestExitedZero
    /\ pc = "returned"
    /\ Val(test_result).stdout # <<>>
    /\ Emitted(Lit(MsgTestsPassed))

(* C6. Whenever the test child exits non-zero, the finished run's          *)
(* transcript holds, in this order, the build-success line, the            *)
(* test-warning line and the whole captured stdout of the test stage; the  *)
(* test-success line is never printed.                                     *)
C6_TestFailureShowsStdout ==
    TestExitedNonZero =>
        /\ ~Emitted(Lit(MsgTestsPassed))
        /\ Finished =>
              \E i \in 1..Len(transcript) : \E j \in 1..Len(transcript) :
              \E k \in 1..Len(transcript) :
                  /\ i < j
                  /\ j < k
                  /\ transcript[i] = Lit(MsgBuildOk)
                  /\ transcript[j] = Lit(MsgTestAlert)
                  /\ transcript[k].src = "test_result.stdout"
                  /\ transcript[k].text = Val(test_result).stdout

C6_Witness ==
    /\ TestExitedNonZero
    /\ pc = "returned"
    /\ Val(test_result).stdout # <<>>
    /\ Val(test_result).stdout # Val(test_result).stderr

(* C7. When build and test both exit 0, the transcript holds no failure    *)
(* line, no warning line and no captured stream of either child (every     *)
(* entry is one of the driver's own lines), and when the run is over it    *)
(* holds the build-success line followed by the test-success line.         *)
C7_AllGreenTranscript ==
    (BuildExitedZero /\ TestExitedZero) =>
        /\ ~Emitted(Lit(MsgBuildFailed))
        /\ ~Emitted(Lit(MsgTestAlert))
        /\ \A i \in 1..Len(transcript) : transcript[i].src = "literal"
        /\ Finished =>
              \E i \in IndicesOf(Lit(MsgBuildOk)) :
              \E j \in IndicesOf(Lit(MsgTestsPassed)) : i < j

C7_Witness ==
    /\ BuildExitedZero
    /\ TestExitedZero
    /\ pc = "exited"
    /\ Val(run_result).stderr # <<>>
    /\ Val(test_result).stdout # <<>>

(* C8. Nothing is retried: each stage's command is passed to               *)
(* subprocess.run at most once per run, so at most two children are        *)
(* spawned, and no call is made once a stage has exited non-zero.          *)
C8_AtMostOnceState ==
    /\ Cardinality(CallsOf("run")) <= 1
    /\ Cardinality(CallsOf("test")) <= 1
    /\ Len(calls) <= 2

C8_NoSpawnAfterFailure ==
    (BuildExitedNonZero \/ TestExitedNonZero) => calls' = calls

C8_NoRetry == [](C8_AtMostOnceState) /\ [][C8_NoSpawnAfterFailure]_vars

C8_Witness ==
    /\ Len(calls) = 2
    /\ TestExitedNonZero
    /\ pc = "exited"

(* C9. The driver's completion does not depend on the stages' outcomes:    *)
(* whether build and test both exit 0, the test exits non-zero, or the     *)
(* build exits non-zero, run_dbt_pipeline does not raise, returns None,    *)
(* and the driver process exits with status 0.                             *)
C9_SameCompletionStatus ==
    (Finished /\ (BuildExitedNonZero \/ TestExited)) =>
        /\ raised = ""
        /\ retval = "None"
        /\ pc # "raised"
        /\ pc = "exited" => exitStatus = <<0>>

C9_Witness ==
    /\ pc = "exited"
    /\ TestExitedNonZero
    /\ exitStatus = <<0>>
    /\ retval = "None"

(* C10. A build failure halts the run without raising: when the build      *)
(* exits non-zero no exception is raised, the test banner and the test     *)
(* outcome lines are never printed, the finished run has returned None     *)
(* with the failure line and the captured stderr as the last two entries   *)
(* of the transcript, and nothing is printed once the stderr is out.       *)
C10_HaltedState ==
    BuildExitedNonZero =>
        /\ raised = ""
        /\ pc # "raised"
        /\ ~Emitted(Lit(MsgRunningTests))
        /\ ~Emitted(Lit(MsgTestsPassed))
        /\ ~Emitted(Lit(MsgTestAlert))
        /\ Finished =>
              /\ retval = "None"
              /\ Len(transcript) >= 2
              /\ transcript[Len(transcript) - 1] = Lit(MsgBuildFailed)
              /\ transcript[Len(transcript)].src = "run_result.stderr"
              /\ transcript[Len(transcript)].text = Val(run_result).stderr

C10_SilentAfterStderr ==
    (BuildExitedNonZero /\ pc \in {"L17", "returned", "raised", "exited"}) =>
        transcript' = transcript

C10_BuildFailureHalts == [](C10_HaltedState) /\ [][C10_SilentAfterStderr]_vars

C10_Witness ==
    /\ BuildExitedNonZero
    /\ pc = "returned"
    /\ retval = "None"
    /\ Len(transcript) = 4

(* C11. Each stage is a synchronous wait without timeout: a stage's        *)
(* outcome line is in the transcript only once that stage's child has      *)
(* exited, and while a child is alive the driver does nothing (it prints   *)
(* nothing and makes no call; the only step is that child's exit).  As     *)
(* stated, the claim adds that the run eventually returns when every       *)
(* spawned child eventually exits.                                         *)
BuildOutcomeEmitted == Emitted(Lit(MsgBuildOk)) \/ Emitted(Lit(MsgBuildFailed))
TestOutcomeEmitted == Emitted(Lit(MsgTestsPassed)) \/ Emitted(Lit(MsgTestAlert))

C11_OutcomeAfterExit ==
    /\ BuildOutcomeEmitted => (BuildExited /\ "build" \notin running)
    /\ TestOutcomeEmitted => (TestExited /\ "test" \notin running)
    /\ running # {} => pc \in {"L10_wait", "L20_wait"}
    /\ "build" \in running => (Len(calls) = 1 /\ ~BuildExited)
    /\ "test" \in running => (Len(calls) = 2 /\ ~TestExited)

C11_BlockedWhileChildRuns ==
    running # {} =>
        /\ transcript' = transcript
        /\ calls' = calls
        /\ running' = {}

\* the claim as stated: the run eventually returns
C11_Original ==
    /\ [](C11_OutcomeAfterExit)
    /\ [][C11_BlockedWhileChildRuns]_vars
    /\ <>(retval = "None")

\* amended: the run eventually returns, or ends with the OSError of a
\* subprocess.run call that could not start its child
C11_SynchronousWait ==
    /\ [](C11_OutcomeAfterExit)
    /\ [][C11_BlockedWhileChildRuns]_vars
    /\ <>(retval = "None" \/ raised = "OSError")

C11_Witness ==
    /\ retval = "None"
    /\ TestExited
    /\ TestOutcomeEmitted
    /\ running = {}
    /\ pc = "returned"

(* C12. Child output reaches the transcript only through the driver's      *)
(* prints: every entry is a driver literal, the build's stderr or the      *)
(* test's stdout; the build's stderr is there only when the build exited   *)
(* non-zero and the test's stdout only when the test exited non-zero, each *)
(* with the text that was captured; the build's stdout and the test's      *)
(* stderr are never printed.                                               *)
C12_OnlyExplicitStreams ==
    /\ \A i \in 1..Len(transcript) :
          /\ transcript[i].src \in {"literal", "run_result.stderr",
                                    "test_result.stdout"}
          /\ transcript[i].src = "run_result.stderr" =>
                /\ BuildExitedNonZero
                /\ transcript[i].text = Val(run_result).stderr
          /\ transcript[i].src = "test_result.stdout" =>
                /\ TestExitedNonZero
                /\ transcript[i].text = Val(test_result).stdout
          /\ transcript[i].src = "literal" => Len(transcript[i].text) = 1
    /\ (BuildExited /\ Val(run_result).stdout # Val(run_result).stderr
          /\ ~TestExited) =>
          \A i \in 1..Len(transcript) :
              transcript[i].text # Val(run_result).stdout
    /\ (TestExited /\ Val(test_result).stderr # Val(test_result).stdout) =>
          \A i \in 1..Len(transcript) :
              transcript[i].text # Val(test_result).stderr

C12_Witness ==
    /\ TestExitedNonZero
    /\ pc = "returned"
    /\ Val(run_result).stdout # <<>>
    /\ Val(test_result).stderr # <<>>
    /\ Val(test_result).stderr # Val(test_result).stdout
    /\ \E i \in 1..Len(transcript) : transcript[i].src = "test_result.stdout"

(* C13. The gate of the build stage looks at the exit status only: the     *)
(* step from line 12 goes on to the test stage exactly when the status is  *)
(* 0; a build that exits 0 with a non-empty stderr reaches the test stage  *)
(* and its stderr is never printed; a build that exits non-zero, positive  *)
(* or negative, with an empty stderr stops before the test stage.          *)
C13_GateState ==
    /\ (BuildExitedZero /\ Val(run_result).stderr # <<>>) =>
          /\ pc \notin {"L16", "L17"}
          /\ \A i \in 1..Len(transcript) :
                transcript[i].src # "run_result.stderr"
          /\ ~Emitted(Lit(MsgBuildFailed))
          /\ Finished => CallsOf("test") # {}
    /\ (BuildExitedNonZero /\ Val(run_result).stderr = <<>>) =>
          /\ pc \in {"L12", "L16", "L17", "returned", "exited"}
          /\ CallsOf("test") = {}
          /\ ~Emitted(Lit(MsgRunningTests))

C13_GateStep ==
    pc = "L12" =>
        /\ pc' = "L19" <=> Val(run_result).returncode = 0
        /\ pc' = "L16" <=> Val(run_result).returncode # 0

C13_GateOnStatusOnly == [](C13_GateState) /\ [][C13_GateStep]_vars

C13_Witness ==
    /\ BuildExitedZero
    /\ Val(run_result).stderr # <<>>
    /\ TestExited
    /\ pc = "exited"

(* C14. Progress banners bracket the stages: the transcript begins with    *)
(* the start banner and the build banner, both printed before the build    *)
(* call; the test banner is printed only after a build that exited 0,      *)
(* after the build-success line and before the test call, and a finished   *)
(* run has it exactly when the build exited 0.  As stated, the claim adds  *)
(* that every invoked stage contributes exactly one outcome line.          *)
OutcomeLines(msgs) == {i \in 1..Len(transcript) : \E m \in msgs : transcript[i] = Lit(m)}

C14_Banners ==
    /\ Len(transcript) >= 1 => transcript[1] = Lit(MsgStart)
    /\ Len(transcript) >= 2 => transcript[2] = Lit(MsgRunningModels)
    /\ calls # <<>> => Len(transcript) >= 2
    /\ Cardinality(IndicesOf(Lit(MsgStart))) <= 1
    /\ Cardinality(IndicesOf(Lit(MsgRunningModels))) <= 1
    /\ Cardinality(IndicesOf(Lit(MsgRunningTests))) <= 1
    /\ Emitted(Lit(MsgRunningTests)) =>
          /\ BuildExitedZero
          /\ \E i \in IndicesOf(Lit(MsgBuildOk)) :
             \E j \in IndicesOf(Lit(MsgRunningTests)) : i < j
    /\ CallsOf("test") # {} => Emitted(Lit(MsgRunningTests))
    /\ (TestExited \/ "test" \in running) =>
          transcript[Len(transcript)] = Lit(MsgRunningTests)
             \/ TestOutcomeEmitted
    /\ Finished => (Emitted(Lit(MsgRunningTests)) <=> BuildExitedZero)

\* the claim as stated: every stage for which subprocess.run was called
C14_Original ==
    /\ C14_Banners
    /\ Cardinality(OutcomeLines({MsgBuildOk, MsgBuildFailed})) <= 1
    /\ Cardinality(OutcomeLines({MsgTestsPassed, MsgTestAlert})) <= 1
    /\ (Finished /\ CallsOf("run") # {}) =>
          Cardinality(OutcomeLines({MsgBuildOk, MsgBuildFailed})) = 1
    /\ (Finished /\ CallsOf("test") # {}) =>
          Cardinality(OutcomeLines({MsgTestsPassed, MsgTestAlert})) = 1

\* amended: every stage whose child has exited
C14_BannersBracketStages ==
    /\ C14_Banners
    /\ Cardinality(OutcomeLines({MsgBuildOk, MsgBuildFailed})) <= 1
    /\ Cardinality(OutcomeLines({MsgTestsPassed, MsgTestAlert})) <= 1
    /\ (Finished /\ BuildExited) =>
          Cardinality(OutcomeLines({MsgBuildOk, MsgBuildFailed})) = 1
    /\ (Finished /\ TestExited) =>
          Cardinality(OutcomeLines({MsgTestsPassed, MsgTestAlert})) = 1
    /\ (Finished /\ ~BuildExited) =>
          OutcomeLines({MsgBuildOk, MsgBuildFailed}) = {}
    /\ (Finished /\ ~TestExited) =>
          OutcomeLines({MsgTestsPassed, MsgTestAlert}) = {}

C14_Witness ==
    /\ pc = "returned"
    /\ TestExitedZero
    /\ Len(transcript) = 5
    /\ transcript[4] = Lit(MsgRunningTests)

(* C18. DbtThreadPool tracks closure monotonically: from construction on,  *)
(* self.closed is True exactly when close() has been called, it never      *)
(* goes back to False whatever is called next (close again, terminate,     *)
(* submitting a task, is_closed), and is_closed() returns True exactly     *)
(* when close() had been called before it.                                 *)
C18_ClosedIffCloseCalled ==
    /\ pool_state # "NEW" => (closed <=> close_calls > 0)
    /\ is_closed_result = "True" => is_closed_after > 0
    /\ is_closed_result = "False" => is_closed_after = 0
    /\ is_closed_result = "<not called>" => is_closed_after = 0

C18_NeverReopens ==
    /\ closed => closed'
    /\ (pool_state # "NEW" /\ ~closed /\ closed') => close_calls' = close_calls + 1

C18_ClosureMonotonic == [](C18_ClosedIffCloseCalled) /\ [][C18_NeverReopens]_vars

C18_Witness ==
    /\ closed
    /\ close_calls = 2
    /\ pool_state = "TERMINATE"
    /\ is_closed_result = "True"
    /\ submitted > 0

(* C15. check_for_duplicate_packages removes every entry whose identifier  *)
(* contains some variant of the added package's name delimited on both     *)
(* sides by the start or end of the string, "/" or ".", removes no entry   *)
(* in which the variants occur only inside a larger compound, and keeps    *)
(* the other entries in their order: what it returns is the list passed    *)
(* in without the entries that have a delimited variant.                   *)
HasDelimitedVariant(package_identifier, package_name) ==
    /\ package_identifier # <<>>
    /\ \E name_variant \in NameParts(package_name) :
       \E idx \in Occurrences(package_identifier, name_variant) :
          Delimited(package_identifier, name_variant, idx)

KeptEntry(pkg_entry) == ~HasDelimitedVariant(PackageIdentifier(pkg_entry), add_name)

C15_RemovesDelimitedMatches ==
    dup_pc = "returned" => packages_yml = SelectSeq(dup_input, KeptEntry)

(* C16. DepsTask.run calls lock() exactly when the lock file does not      *)
(* exist, or the upgrade flag is set, or the hash stored in the lock file  *)
(* (none, for a file without the key) differs from the hash of the         *)
(* packages now specified; it calls it at most once, and when it does not  *)
(* call it the lock file stays as it was.                                  *)
PastLockCheck == run_pc \in {"lock_flag", "load_lock", "install", "returned"}

LockIsStale ==
    \/ ~lock_file0.exists
    \/ args.upgrade
    \/ PreviousHash(lock_file0) # <<CreateSha1Hash(packages)>>

C16_LockIffStale ==
    /\ run_pc \in {"start", "check_lock"} =>
          (lock_calls = 0 /\ lock_file = lock_file0)
    /\ PastLockCheck =>
          /\ lock_calls <= 1
          /\ lock_calls = 1 <=> LockIsStale
          /\ ~LockIsStale => lock_file = lock_file0

C16_Witness ==
    /\ run_pc = "returned"
    /\ lock_file0.exists
    /\ lock_file0.has_hash
    /\ ~args.upgrade
    /\ lock_calls = 0
    /\ installs # <<>>

(* C17. With the lock flag set, DepsTask.run returns after the lock step   *)
(* without installing: whatever the lock file was, the install directory   *)
(* is neither removed nor made, it stays as it was, and install() is       *)
(* called for no package.                                                  *)
C17_LockFlagInstallsNothing ==
    args.lock =>
        /\ run_pc \in {"start", "check_lock", "lock_flag", "returned"}
        /\ rmtree_calls = 0
        /\ mkdir_calls = 0
        /\ installs = <<>>
        /\ to_install = <<>>
        /\ install_dir = install_dir0

C17_Witness ==
    /\ args.lock
    /\ run_pc = "returned"
    /\ install_dir.exists
    /\ install_dir.contents # {}
    /\ lock_calls = 1
    /\ lock_file.exists
    /\ lock_file.packages # <<>>

(* C19. _create_sha1_hash depends on the multiset of the specified         *)
(* packages only: the list the lock file was written for and a             *)
(* permutation of it have the same hash, so that with the lock file there  *)
(* and no upgrade run() does not call lock() for a reordered list; two     *)
(* lists whose serialized entries differ as multisets have different hash  *)
(* inputs.                                                                 *)
Count(x, list) == Cardinality({k \in 1..Len(list) : list[k] = x})

SameBag(a, b) ==
    /\ Len(a) = Len(b)
    /\ \A k \in 1..Len(a) : Count(a[k], a) = Count(a[k], b)

JsonList(package_list) == [k \in 1..Len(package_list) |-> Json(package_list[k])]

C19_HashIsOrderFree ==
    (run_pc # "idle" /\ run_pc # "start" /\ lock_file0.exists) =>
        /\ SameBag(lock_file0.from, packages) =>
              CreateSha1Hash(lock_file0.from) = CreateSha1Hash(packages)
        /\ ~SameBag(JsonList(lock_file0.from), JsonList(packages)) =>
              HashInput(lock_file0.from) # HashInput(packages)
        /\ (SameBag(lock_file0.from, packages) /\ lock_file0.has_hash
              /\ ~args.upgrade /\ PastLockCheck) =>
              (lock_calls = 0 /\ lock_file = lock_file0)

C19_Witness ==
    /\ run_pc = "returned"
    /\ ~args.add_package
    /\ lock_file0.exists
    /\ lock_file0.has_hash
    /\ ~args.upgrade
    /\ packages # lock_file0.from
    /\ SameBag(lock_file0.from, packages)
    /\ lock_calls = 0

====
